---- MODULE Spec2Model ----
(***************************************************************************)
(* Tempus: U.S. federal fiscal-year arithmetic (src/fiscal.py).            *)
(*                                                                         *)
(* FiscalYear binds a reference date to calendar/fiscal year numbers and   *)
(* bounds and answers day/month/percent and range-count queries;           *)
(* FederalHoliday computes the federal holidays of one fiscal year.  Every *)
(* method catches its own failures and hands an Error record to            *)
(* ErrorDialog.show (src/boogr.py), the error sink.                        *)
(*                                                                         *)
(* Values are tagged records: a datetime.date is                           *)
(* [kind |-> "date", year, month, day], a datetime.datetime carries an     *)
(* hour as its time of day, None is [kind |-> "None"].  An instance is the *)
(* function from its attribute names to their values (its __dict__); an    *)
(* attribute that was never assigned is not in the domain.                 *)
(***************************************************************************)
EXTENDS Integers, Sequences, FiniteSets, TLC

VARIABLES
    self,     \* the FiscalYear instance: attribute name -> value
    fh,       \* the FederalHoliday instance: attribute name -> value
    pc,       \* the caller's position: "ready" (constructed) or "done" (a query returned)
    call,     \* the operation executed last, with its arguments
    result,   \* what that operation returned
    raised,   \* the exception that escaped from that operation to the caller, "" if none
    sink,     \* the Error records ErrorDialog.show presented during that operation
    _window,  \* ErrorDialog.show's window: "none" (not created), "open", "closed"
    _event    \* the event ErrorDialog.show's loop read last

vars == <<self, fh, pc, call, result, raised, sink, _window, _event>>

----------------------------------------------------------------------------
(* Bounds of the model.                                                    *)

\* FiscalYear is constructed and rebound with the dates of these years.
BindMinYear == 2023
BindMaxYear == 2024

\* FederalHoliday is constructed for these fiscal years.
MinFiscalYear == 2019
MaxFiscalYear == 2027

\* Range counts: the ranges start in this year and end at most MaxSpan days
\* after their start (or span one whole fiscal year).
CountYear == 2021
MaxSpan == 3

----------------------------------------------------------------------------
(* Python values.                                                          *)

None == [kind |-> "None"]

Date(y, m, d) == [kind |-> "date", year |-> y, month |-> m, day |-> d]

DateTime(y, m, d, h) ==
    [kind |-> "datetime", year |-> y, month |-> m, day |-> d, hour |-> h]

IsDate(v) == v.kind = "date"

IsDateTime(v) == v.kind = "datetime"

\* An int, a bool, a str, a float (as the quotient num / den) and a
\* datetime.timedelta (whole days and the remaining hours), as the queries
\* added below return them.  The range counts and fiscal_days_in_year hand
\* their int back as a plain number.
PyInt(n) == [kind |-> "int", value |-> n]

PyBool(b) == [kind |-> "bool", value |-> b]

PyStr(s) == [kind |-> "str", value |-> s]

PyFloat(num, den) == [kind |-> "float", num |-> num, den |-> den]

TimeDelta(days, hours) == [kind |-> "timedelta", days |-> days, hours |-> hours]

\* An instance on which no attribute has been assigned.
NoAttrs == [a \in {} |-> None]

\* self.name = v
SetAttr(obj, name, v) == (name :> v) @@ obj

HasAttr(obj, name) == name \in DOMAIN obj

----------------------------------------------------------------------------
(* The datetime module's calendar arithmetic (proleptic Gregorian).        *)

_is_leap(year) == year % 4 = 0 /\ (year % 100 # 0 \/ year % 400 = 0)

_DAYS_IN_MONTH == <<31, 28, 31, 30, 31, 30, 31, 31, 30, 31, 30, 31>>

_DAYS_BEFORE_MONTH == <<0, 31, 59, 90, 120, 151, 181, 212, 243, 273, 304, 334>>

_days_in_month(year, month) ==
    IF month = 2 /\ _is_leap(year) THEN 29 ELSE _DAYS_IN_MONTH[month]

_days_before_year(year) ==
    LET y == year - 1
    IN  y * 365 + (y \div 4) - (y \div 100) + (y \div 400)

_days_before_month(year, month) ==
    _DAYS_BEFORE_MONTH[month] + (IF month > 2 /\ _is_leap(year) THEN 1 ELSE 0)

_ymd2ord(year, month, day) ==
    _days_before_year(year) + _days_before_month(year, month) + day

\* date.toordinal(): day 1 is 0001-01-01.
toordinal(d) == _ymd2ord(d.year, d.month, d.day)

\* date.fromordinal(n)
fromordinal(n) ==
    LET n0   == n - 1
        n400 == n0 \div 146097
        r400 == n0 % 146097
        n100 == r400 \div 36524
        r100 == r400 % 36524
        n4   == r100 \div 1461
        r4   == r100 % 1461
        n1   == r4 \div 365
        r1   == r4 % 365
        year == n400 * 400 + 1 + n100 * 100 + n4 * 4 + n1
        leap == n1 = 3 /\ (n4 # 24 \/ n100 = 3)
        m0   == (r1 + 50) \div 32
        p0   == _DAYS_BEFORE_MONTH[m0] + (IF m0 > 2 /\ leap THEN 1 ELSE 0)
        month == IF p0 > r1 THEN m0 - 1 ELSE m0
        prec == IF p0 > r1
                THEN p0 - (_DAYS_IN_MONTH[month]
                           + (IF month = 2 /\ leap THEN 1 ELSE 0))
                ELSE p0
    IN  IF n1 = 4 \/ n100 = 4
        THEN Date(year - 1, 12, 31)
        ELSE Date(year, month, r1 - prec + 1)

\* date.weekday(): Monday is 0, Sunday is 6.
weekday(d) == (toordinal(d) + 6) % 7

\* d + timedelta(days = n), d - timedelta(days = n) for a date d.
AddDays(d, n) == fromordinal(toordinal(d) + n)

\* (a - b).days for two dates, or for two datetimes at midnight.
DaysBetween(a, b) == toordinal(a) - toordinal(b)

\* a < b, a <= b for two dates: (year, month, day) compared in that order.
DateLt(a, b) ==
    \/ a.year < b.year
    \/ a.year = b.year /\ a.month < b.month
    \/ a.year = b.year /\ a.month = b.month /\ a.day < b.day

DateLe(a, b) == DateLt(a, b) \/ (a.year = b.year /\ a.month = b.month /\ a.day = b.day)

\* datetime.date(): the date part of a datetime, the time of day dropped.
DatePart(v) == Date(v.year, v.month, v.day)

\* The dates of the years lo..hi.
DatesOfYears(lo, hi) ==
    UNION { { Date(y, m, d) : d \in 1.._days_in_month(y, m) } :
            y \in lo..hi, m \in 1..12 }

----------------------------------------------------------------------------
(* Failures and the error sink.                                            *)

\* boogr.Error wraps the exception caught; the handler then sets module, cause
\* and method, and ErrorDialog(exception).show() presents the record.
Error(exc, module, cause, method) ==
    [exception |-> exc, module |-> module, cause |-> cause, method |-> method]

\* Python truth value: None is falsy, a date or a datetime is always truthy.
Truthy(v) ==
    CASE v.kind = "None" -> FALSE
      [] v.kind = "str"  -> v.value # ""
      [] v.kind = "int"  -> v.value # 0
      [] OTHER           -> TRUE

\* throw_if(name, value): the exception it raises, or "" when it returns.
throw_if(name, value) == IF ~Truthy(value) THEN "ValueError" ELSE ""

_to_date_mutant(value, today) ==
    CASE value.kind = "None"     -> today
      [] value.kind = "datetime" -> value
      [] value.kind = "date"     -> value
      [] OTHER                   -> None

\* _to_date(value): None -> today, a datetime -> its date, a date -> itself;
\* any other value falls off the end of the function, which returns None.
_to_date(value, today) ==
    CASE value.kind = "None"     -> today
      [] value.kind = "datetime" -> DatePart(value)
      [] value.kind = "date"     -> value
      [] OTHER                   -> None

----------------------------------------------------------------------------
(* class FiscalYear                                                        *)

October == 10

_bind_mutant_fy(s, d) ==
    LET fy == IF d.month > October THEN d.year + 1 ELSE d.year
    IN  [self |-> [ date |-> d, calendar_year |-> d.year, fiscal_year |-> fy,
                    beginning_fiscal_year |-> fy - 1, ending_fiscal_year |-> fy,
                    fy_start_date |-> DateTime(fy - 1, 10, 1, 0),
                    fy_end_date |-> DateTime(fy, 9, 30, 0),
                    cy_start_date |-> DateTime(d.year, 1, 1, 0),
                    cy_end_date |-> DateTime(d.year, 12, 31, 0) ] @@ s,
         errs |-> <<>>]

_bind_mutant_stale_end(s, d) ==
    LET fy == IF d.month >= October THEN d.year + 1 ELSE d.year
    IN  [self |-> [ date |-> d, calendar_year |-> d.year, fiscal_year |-> fy,
                    beginning_fiscal_year |-> fy - 1, ending_fiscal_year |-> fy,
                    fy_start_date |-> DateTime(fy - 1, 10, 1, 0),
                    fy_end_date |-> IF HasAttr(s, "fy_end_date") THEN s.fy_end_date
                                    ELSE DateTime(fy, 9, 30, 0),
                    cy_start_date |-> DateTime(d.year, 1, 1, 0),
                    cy_end_date |-> DateTime(d.year, 12, 31, 0) ] @@ s,
         errs |-> <<>>]

\* FiscalYear._bind(d): the instance afterwards and the records it reported.
\* throw_if rejects a falsy d before any assignment; a truthy value that is no
\* date is assigned to self.date and then fails at d.year.
_bind(s, d) ==
    IF throw_if("d", d) # ""
    THEN [self |-> s, errs |-> <<Error(throw_if("d", d), "tempus", "", "")>>]
    ELSE IF ~(IsDate(d) \/ IsDateTime(d))
    THEN [self |-> SetAttr(s, "date", d),
          errs |-> <<Error("AttributeError", "tempus", "", "")>>]
    ELSE
    LET s1 == SetAttr(s, "date", d)
        s2 == SetAttr(s1, "calendar_year", d.year)
        s3 == IF d.month >= October
              THEN [ fiscal_year |-> d.year + 1,
                     beginning_fiscal_year |-> d.year,
                     ending_fiscal_year |-> d.year + 1,
                     fy_start_date |-> DateTime(d.year, 10, 1, 0),
                     fy_end_date |-> DateTime(d.year + 1, 9, 30, 0) ] @@ s2
              ELSE [ fiscal_year |-> d.year,
                     beginning_fiscal_year |-> d.year - 1,
                     ending_fiscal_year |-> d.year,
                     fy_start_date |-> DateTime(d.year - 1, 10, 1, 0),
                     fy_end_date |-> DateTime(d.year, 9, 30, 0) ] @@ s2
        s4 == SetAttr(s3, "cy_start_date", DateTime(d.year, 1, 1, 0))
        s5 == SetAttr(s4, "cy_end_date", DateTime(d.year, 12, 31, 0))
    IN  [self |-> s5, errs |-> <<>>]

\* FiscalYear.__init__(current_date); today is what date.today() returns.
\* _to_date raises nothing and _bind catches its own failures, so the
\* constructor's handler has nothing to catch.
FiscalYear__init__(current_date, today) ==
    LET s1 == SetAttr(NoAttrs, "current_date", current_date)
        s2 == SetAttr(s1, "today", _to_date(current_date, today))
    IN  _bind(s2, s2.today)

fiscal_days_in_year_mutant(s) ==
    [self |-> s, ret |-> DaysBetween(s.fy_end_date, s.fy_start_date), errs |-> <<>>]

\* FiscalYear.fiscal_days_in_year(): both bounds are datetimes, so the
\* subtraction is defined whenever both attributes exist.
fiscal_days_in_year(s) ==
    IF HasAttr(s, "fy_end_date") /\ HasAttr(s, "fy_start_date")
    THEN [self |-> s, ret |-> DaysBetween(s.fy_end_date, s.fy_start_date) + 1, errs |-> <<>>]
    ELSE [self |-> s, ret |-> None, errs |-> <<Error("AttributeError", "tempus", "", "")>>]

\* a - b in Python for the values an attribute can hold: two dates or two
\* datetimes give a timedelta; a date and a datetime (either way), or a value
\* that is neither, is a TypeError.
PySub(a, b) ==
    IF IsDate(a) /\ IsDate(b)
    THEN [exc |-> "", value |-> TimeDelta(toordinal(a) - toordinal(b), 0)]
    ELSE IF IsDateTime(a) /\ IsDateTime(b)
    THEN LET hours == 24 * (toordinal(a) - toordinal(b)) + (a.hour - b.hour)
         IN  [exc |-> "", value |-> TimeDelta(hours \div 24, hours % 24)]
    ELSE [exc |-> "TypeError", value |-> None]

\* a == b in Python: a date and a datetime are never equal, whatever their
\* calendar day; values of the same type are equal when their fields are.
PyEq(a, b) == a.kind = b.kind /\ a = b

\* What a method of FiscalYear hands back: the instance afterwards, the value
\* returned (None after a caught failure), the records reported, and the
\* exception that escaped ("" if none).
Returned(s, v) == [self |-> s, ret |-> v, errs |-> <<>>, raised |-> ""]

\* except Exception as e: ... module = 'tempus', cause = '', method = ''
Caught(s, exc) ==
    [self |-> s, ret |-> None, errs |-> <<Error(exc, "tempus", "", "")>>, raised |-> ""]

\* No handler around the body: the exception leaves the method.
Escaped(s, exc) == [self |-> s, ret |-> None, errs |-> <<>>, raised |-> exc]

\* FiscalYear.calendar_day_of_year(): (self.date - self.cy_start_date).days + 1
calendar_day_of_year(s) ==
    IF ~(HasAttr(s, "date") /\ HasAttr(s, "cy_start_date")) THEN Caught(s, "AttributeError")
    ELSE LET diff == PySub(s.date, s.cy_start_date)
         IN  IF diff.exc # "" THEN Caught(s, diff.exc)
             ELSE Returned(s, PyInt(diff.value.days + 1))

\* FiscalYear.fiscal_day_of_year(): (self.date - self.fy_start_date) + 1; the
\* difference, when there is one, is a timedelta, and timedelta + int is a
\* TypeError.
fiscal_day_of_year(s) ==
    IF ~(HasAttr(s, "date") /\ HasAttr(s, "fy_start_date")) THEN Caught(s, "AttributeError")
    ELSE LET diff == PySub(s.date, s.fy_start_date)
         IN  IF diff.exc # "" THEN Caught(s, diff.exc)
             ELSE IF diff.value.kind = "int" THEN Returned(s, PyInt(diff.value.value + 1))
             ELSE Caught(s, "TypeError")

\* FiscalYear.fiscal_elapsed_days(): max(0, self.date - self.fy_start_date);
\* max compares the timedelta with 0, a TypeError.
fiscal_elapsed_days(s) ==
    IF ~(HasAttr(s, "date") /\ HasAttr(s, "fy_start_date")) THEN Caught(s, "AttributeError")
    ELSE LET diff == PySub(s.date, s.fy_start_date)
         IN  IF diff.exc # "" THEN Caught(s, diff.exc)
             ELSE IF diff.value.kind = "int"
             THEN Returned(s, PyInt(IF diff.value.value > 0 THEN diff.value.value ELSE 0))
             ELSE Caught(s, "TypeError")

\* FiscalYear.fiscal_percent_elapsed(): completed / total * 100.0, where
\* completed and total come from two calls that catch their own failures and
\* then return None; dividing None, or by None, is a TypeError.  total is
\* 365 or 366 when it is a number, never 0.
fiscal_percent_elapsed(s) ==
    LET completed == fiscal_elapsed_days(s)
        total     == fiscal_days_in_year(s)
        nested    == completed.errs \o total.errs
    IN  IF completed.ret.kind = "int" /\ total.errs = <<>>
        THEN [self |-> s, ret |-> PyFloat(completed.ret.value * 100, total.ret),
              errs |-> nested, raised |-> ""]
        ELSE [self |-> s, ret |-> None,
              errs |-> nested \o <<Error("TypeError", "tempus", "", "")>>, raised |-> ""]

\* FiscalYear.is_fiscal_start_year(): self.date == self.fy_start_date
is_fiscal_start_year(s) ==
    IF ~(HasAttr(s, "date") /\ HasAttr(s, "fy_start_date")) THEN Caught(s, "AttributeError")
    ELSE Returned(s, PyBool(PyEq(s.date, s.fy_start_date)))

\* FiscalYear.is_fiscal_end_year(): self.date == self.fy_end_date
is_fiscal_end_year(s) ==
    IF ~(HasAttr(s, "date") /\ HasAttr(s, "fy_end_date")) THEN Caught(s, "AttributeError")
    ELSE Returned(s, PyBool(PyEq(s.date, s.fy_end_date)))

\* The attributes to_dict() reads, in the order it reads them.
ExportedFields ==
    << "date", "calendar_year", "fiscal_year", "beginning_fiscal_year",
       "ending_fiscal_year", "cy_start_date", "cy_end_date", "fy_start_date",
       "fy_end_date" >>

\* FiscalYear.to_dict(): a dict of the nine attributes.  The body stands in no
\* try block: an attribute that was never assigned raises AttributeError to
\* the caller.
to_dict(s) ==
    IF \E i \in DOMAIN ExportedFields : ~HasAttr(s, ExportedFields[i])
    THEN Escaped(s, "AttributeError")
    ELSE Returned(s, [kind |-> "dict",
                      value |-> [n \in { ExportedFields[i] : i \in DOMAIN ExportedFields }
                                   |-> s[n]]])

\* FiscalYear.__repr__(): an f-string of self.date.isoformat() and the four
\* year numbers, likewise outside any try block.  Only a date or a datetime
\* has isoformat().
__repr__(s) ==
    IF \E i \in 1..5 : ~HasAttr(s, ExportedFields[i])
    THEN Escaped(s, "AttributeError")
    ELSE IF ~(IsDate(s.date) \/ IsDateTime(s.date)) THEN Escaped(s, "AttributeError")
    ELSE Returned(s, [kind |-> "str", format |-> "BudgetFiscalYear",
                      value |-> <<s.date, s.calendar_year, s.fiscal_year,
                                  s.beginning_fiscal_year, s.ending_fiscal_year>>])

----------------------------------------------------------------------------
(* class FederalHoliday                                                    *)

\* calendar.MONDAY .. calendar.SUNDAY are 0 .. 6, as date.weekday() numbers them.
MONDAY == 0
THURSDAY == 3
SATURDAY == 5
SUNDAY == 6

\* FederalHoliday.__init__(fiscal_year)
FederalHoliday__init__(fiscal_year) ==
    [ fiscal_year   |-> fiscal_year,
      fy_start_date |-> Date(fiscal_year - 1, 10, 1),
      fy_end_date   |-> Date(fiscal_year, 9, 30) ]

\* FederalHoliday(fiscal_year) as the caller sees it: int(fiscal_year) is a
\* TypeError for None and a ValueError for a str that is no number, and
\* date(year, 10, 1) a ValueError for a year outside 1..9999.  __init__ has no
\* try block: the exception reaches the caller and no instance exists.
FederalHoliday(fiscal_year) ==
    CASE fiscal_year.kind = "None" -> [self |-> NoAttrs, raised |-> "TypeError"]
      [] fiscal_year.kind = "str"  -> [self |-> NoAttrs, raised |-> "ValueError"]
      [] fiscal_year.kind = "int"  ->
            IF fiscal_year.value - 1 < 1 \/ fiscal_year.value > 9999
            THEN [self |-> NoAttrs, raised |-> "ValueError"]
            ELSE [self |-> FederalHoliday__init__(fiscal_year.value), raised |-> ""]
      [] OTHER                     -> [self |-> NoAttrs, raised |-> "TypeError"]

_observed_date_mutant(d) ==
    IF ~IsDate(d)
    THEN [ret |-> None, errs |-> <<Error("AttributeError", "tempus", "", "")>>]
    ELSE [ret |-> IF weekday(d) = SATURDAY THEN AddDays(d, 2)
                  ELSE IF weekday(d) = SUNDAY THEN AddDays(d, 1)
                  ELSE d,
          errs |-> <<>>]

\* FederalHoliday._observed_date(d): Saturday -> the Friday before, Sunday ->
\* the Monday after.  A d that is no date has no weekday(): the failure is
\* reported and None returned.
_observed_date(d) ==
    IF ~IsDate(d)
    THEN [ret |-> None, errs |-> <<Error("AttributeError", "tempus", "", "")>>]
    ELSE [ret |-> IF weekday(d) = SATURDAY THEN AddDays(d, -1)
                  ELSE IF weekday(d) = SUNDAY THEN AddDays(d, 1)
                  ELSE d,
          errs |-> <<>>]

\* calendar.Calendar().itermonthdates(year, month): the dates of the whole
\* weeks (Monday first) that cover the month: the last days of the month
\* before, the month's own days, the first days of the month after.
itermonthdates(year, month) ==
    LET day1   == weekday(Date(year, month, 1))
        ndays  == _days_in_month(year, month)
        before == day1 % 7
        after  == (0 - day1 - ndays) % 7
        py     == IF month = 1 THEN year - 1 ELSE year
        pm     == IF month = 1 THEN 12 ELSE month - 1
        ny     == IF month = 12 THEN year + 1 ELSE year
        nm     == IF month = 12 THEN 1 ELSE month + 1
        end    == _days_in_month(py, pm) + 1
    IN  [i \in 1..before |-> Date(py, pm, end - before + i - 1)]
        \o [i \in 1..ndays |-> Date(year, month, i)]
        \o [i \in 1..after |-> Date(ny, nm, i)]

\* matches = [d for d in itermonthdates(year, month)
\*            if d.month == month and d.weekday() == weekday]
WeekdayMatches(year, month, wd) ==
    LET Keep(d) == d.month = month /\ weekday(d) = wd
    IN  SelectSeq(itermonthdates(year, month), Keep)

\* seq[i] for a Python list: 0-based, a negative index counts from the end,
\* anything else outside the list is an IndexError.
PyIndex(seq, i) ==
    IF 0 <= i /\ i < Len(seq) THEN [ok |-> TRUE, value |-> seq[i + 1]]
    ELSE IF i < 0 /\ -i <= Len(seq) THEN [ok |-> TRUE, value |-> seq[Len(seq) + i + 1]]
    ELSE [ok |-> FALSE, value |-> None]

_nth_weekday_of_month_mutant(year, month, wd, n) ==
    LET got == PyIndex(WeekdayMatches(year, month, wd), n)
    IN  IF got.ok THEN [ret |-> got.value, errs |-> <<>>]
        ELSE [ret |-> None, errs |-> <<Error("IndexError", "tempus", "", "")>>]

\* FederalHoliday._nth_weekday_of_month(year, month, weekday, n): matches[n - 1]
_nth_weekday_of_month(year, month, wd, n) ==
    LET got == PyIndex(WeekdayMatches(year, month, wd), n - 1)
    IN  IF got.ok THEN [ret |-> got.value, errs |-> <<>>]
        ELSE [ret |-> None, errs |-> <<Error("IndexError", "tempus", "", "")>>]

\* FederalHoliday._last_weekday_of_month(year, month, weekday): matches[-1]
_last_weekday_of_month(year, month, wd) ==
    LET got == PyIndex(WeekdayMatches(year, month, wd), -1)
    IN  IF got.ok THEN [ret |-> got.value, errs |-> <<>>]
        ELSE [ret |-> None, errs |-> <<Error("IndexError", "tempus", "", "")>>]

_add_holiday_mutant(f, hols, name, actual) ==
    LET obs == _observed_date(actual)
    IN  IF ~IsDate(obs.ret)
        THEN [hols |-> hols,
              errs |-> obs.errs \o <<Error("TypeError", "tempus", "FederalHoliday", "")>>]
        ELSE [hols |-> (name :> [actual |-> actual, observed |-> obs.ret]) @@ hols,
              errs |-> obs.errs]

\* FederalHoliday._add_holiday(hols, name, actual): hols afterwards and the
\* records reported.  The entry is stored only when the observed date is in
\* [fy_start_date, fy_end_date]; comparing a date with None is a TypeError.
_add_holiday(f, hols, name, actual) ==
    CHOOSE after \in {
        IF ~IsDate(obs.ret)
        THEN [hols |-> hols,
              errs |-> obs.errs \o <<Error("TypeError", "tempus", "FederalHoliday", "")>>]
        ELSE IF DateLe(f.fy_start_date, obs.ret) /\ DateLe(obs.ret, f.fy_end_date)
        THEN [hols |-> (name :> [actual |-> actual, observed |-> obs.ret]) @@ hols,
              errs |-> obs.errs]
        ELSE [hols |-> hols, errs |-> obs.errs]
        : obs \in { _observed_date(actual) } } : TRUE

\* One statement of holidays(): self._add_holiday(hols, name, <actual>), where
\* computing <actual> may itself have reported records.
AddStep(f, acc, name, actual) ==
    CHOOSE after \in {
        [hols |-> added.hols, errs |-> acc.errs \o actual.errs \o added.errs]
        : added \in { _add_holiday(f, acc.hols, name, actual.ret) } } : TRUE

\* date(year, month, day) written in place: nothing to report.
Fixed(year, month, day) == [ret |-> Date(year, month, day), errs |-> <<>>]

HolidayStatements_mutant(f) ==
    LET start == f.fy_start_date.year
        end   == f.fiscal_year
        Stmt(name, actual) == [name |-> name, actual |-> actual]
    IN  << Stmt("Columbus Day", _nth_weekday_of_month(start, 10, MONDAY, 2)),
           Stmt("Veterans Day", Fixed(start, 11, 11)),
           Stmt("Thanksgiving Day", _nth_weekday_of_month(start, 11, THURSDAY, 4)),
           Stmt("Christmas Day", Fixed(start, 11, 11)),
           Stmt("New Year's Day", Fixed(end, 1, 1)),
           Stmt("Birthday of Martin Luther King, Jr.",
                _nth_weekday_of_month(end, 1, MONDAY, 3)),
           Stmt("Washington's Birthday", _nth_weekday_of_month(end, 2, MONDAY, 3)),
           Stmt("Memorial Day", _last_weekday_of_month(end, 5, MONDAY)),
           Stmt("Juneteenth National Independence Day", Fixed(end, 6, 19)),
           Stmt("Independence Day", Fixed(end, 7, 4)),
           Stmt("Labor Day", _nth_weekday_of_month(end, 9, MONDAY, 1)) >>

HolidayStatements_mutant_year(f) ==
    LET start == f.fy_start_date.year
        end   == f.fiscal_year
        Stmt(name, actual) == [name |-> name, actual |-> actual]
    IN  << Stmt("Columbus Day", _nth_weekday_of_month(start, 10, MONDAY, 2)),
           Stmt("Veterans Day", Fixed(start, 11, 11)),
           Stmt("Thanksgiving Day", _nth_weekday_of_month(start, 11, THURSDAY, 4)),
           Stmt("Christmas Day", Fixed(start, 12, 25)),
           Stmt("New Year's Day", Fixed(start, 1, 1)),
           Stmt("Birthday of Martin Luther King, Jr.",
                _nth_weekday_of_month(end, 1, MONDAY, 3)),
           Stmt("Washington's Birthday", _nth_weekday_of_month(end, 2, MONDAY, 3)),
           Stmt("Memorial Day", _last_weekday_of_month(end, 5, MONDAY)),
           Stmt("Juneteenth National Independence Day", Fixed(end, 6, 19)),
           Stmt("Independence Day", Fixed(end, 7, 4)),
           Stmt("Labor Day", _nth_weekday_of_month(end, 9, MONDAY, 1)) >>

\* The eleven statements of holidays(), in the order written: the name and
\* the actual date each passes to _add_holiday.
HolidayStatements(f) ==
    LET start == f.fy_start_date.year
        end   == f.fiscal_year
        Stmt(name, actual) == [name |-> name, actual |-> actual]
    IN  << Stmt("Columbus Day", _nth_weekday_of_month(start, 10, MONDAY, 2)),
           Stmt("Veterans Day", Fixed(start, 11, 11)),
           Stmt("Thanksgiving Day", _nth_weekday_of_month(start, 11, THURSDAY, 4)),
           Stmt("Christmas Day", Fixed(start, 12, 25)),
           Stmt("New Year's Day", Fixed(end, 1, 1)),
           Stmt("Birthday of Martin Luther King, Jr.",
                _nth_weekday_of_month(end, 1, MONDAY, 3)),
           Stmt("Washington's Birthday", _nth_weekday_of_month(end, 2, MONDAY, 3)),
           Stmt("Memorial Day", _last_weekday_of_month(end, 5, MONDAY)),
           Stmt("Juneteenth National Independence Day", Fixed(end, 6, 19)),
           Stmt("Independence Day", Fixed(end, 7, 4)),
           Stmt("Labor Day", _nth_weekday_of_month(end, 9, MONDAY, 1)) >>

\* hols and the records reported after the first n statements of holidays().
RECURSIVE AfterStatements(_, _, _)
AfterStatements(f, stmts, n) ==
    IF n = 0 THEN [hols |-> NoAttrs, errs |-> <<>>]
    ELSE CHOOSE after \in {
             AddStep(f, acc, st.name, st.actual)
             : acc \in { AfterStatements(f, stmts, n - 1) }, st \in { stmts[n] } } : TRUE

\* FederalHoliday.holidays(): hols = {}, then the statements one after the
\* other; the mapping name -> {actual, observed} and the records reported on
\* the way.
holidays(f) ==
    CHOOSE o \in {
        [self |-> f, ret |-> last.hols, errs |-> last.errs]
        : last \in { AfterStatements(f, stmts, Len(stmts))
                     : stmts \in { HolidayStatements(f) } } } : TRUE

\* hols.values(): one payload per key of the dict, kept with its key so that
\* equal payloads under two names stay two values.
values(d) == { <<k, d[k]>> : k \in DOMAIN d }

\* 'observed' if use_observed else 'actual'
HolidayDate(payload, use_observed) ==
    IF use_observed THEN payload.observed ELSE payload.actual

\* FederalHoliday.is_holiday(when, observed): whether _to_date(when) is the
\* observed (or the actual) date of an entry of self.holidays().  A when that
\* is no date becomes None, which equals no date.
is_holiday(f, when, observed, today) ==
    LET d    == _to_date(when, today)
        hols == holidays(f)
    IN  [self |-> f,
         ret  |-> PyBool(\E item \in values(hols.ret) :
                            d = HolidayDate(item[2], observed)),
         errs |-> hols.errs]

is_weekend_mutant(f, when, today) ==
    LET d == _to_date(when, today)
    IN  IF ~IsDate(d)
        THEN [self |-> f, ret |-> None,
              errs |-> <<Error("AttributeError", "tempus", "FederalHoliday",
                               "is_weekend( self, when: datetime ) -> bool ")>>]
        ELSE [self |-> f, ret |-> PyBool(weekday(d) >= SATURDAY), errs |-> <<>>]

\* FederalHoliday.is_weekend(when): throw_if rejects a falsy when; a truthy
\* value that is no date becomes None, which has no weekday().
is_weekend(f, when, today) ==
    IF throw_if("when", when) # ""
    THEN [self |-> f, ret |-> None,
          errs |-> <<Error(throw_if("when", when), "tempus", "FederalHoliday",
                           "is_weekend( self, when: datetime ) -> bool ")>>]
    ELSE LET d == _to_date(when, today)
         IN  IF ~IsDate(d)
             THEN [self |-> f, ret |-> None,
                   errs |-> <<Error("AttributeError", "tempus", "FederalHoliday",
                                    "is_weekend( self, when: datetime ) -> bool ")>>]
             ELSE [self |-> f, ret |-> PyBool(weekday(d) >= SATURDAY), errs |-> <<>>]

----------------------------------------------------------------------------
(* FiscalYear's range counts.                                              *)


\* The days cur = s, s + 1 day, ... that a loop "while cur <= e" visits.
DaysOfLoop(s, e) == { fromordinal(n) : n \in toordinal(s)..toordinal(e) }

\* count_weekends' loop: if cur.weekday() >= 5: count += 1
WeekendLoop(s, e) ==
    Cardinality({ cur \in DaysOfLoop(s, e) : weekday(cur) >= SATURDAY })

\* count_workdays' loop: if cur.weekday() < 5 and cur not in hset: count += 1
WorkdayLoop(s, e, hset) ==
    Cardinality({ cur \in DaysOfLoop(s, e) : weekday(cur) < SATURDAY /\ cur \notin hset })

count_weekends_mutant(s, start, end, today) ==
    LET sd == _to_date(start, today)
        ed == _to_date(end, today)
    IN  IF ~(IsDate(sd) /\ IsDate(ed))
        THEN [self |-> s, ret |-> None,
              errs |-> <<Error("TypeError", "fiscal", "FiscalYear",
                               "count_weekends(self, start, end)")>>]
        ELSE IF DateLt(ed, sd) THEN [self |-> s, ret |-> 0, errs |-> <<>>]
        ELSE [self |-> s, ret |-> WeekendLoop(sd, AddDays(ed, -1)), errs |-> <<>>]

\* FiscalYear.count_weekends(start, end).  An argument that is no date
\* normalises to None, and comparing with None is a TypeError.
count_weekends(s, start, end, today) ==
    LET sd == _to_date(start, today)
        ed == _to_date(end, today)
    IN  IF ~(IsDate(sd) /\ IsDate(ed))
        THEN [self |-> s, ret |-> None,
              errs |-> <<Error("TypeError", "fiscal", "FiscalYear",
                               "count_weekends(self, start, end)")>>]
        ELSE IF DateLt(ed, sd) THEN [self |-> s, ret |-> 0, errs |-> <<>>]
        ELSE [self |-> s, ret |-> WeekendLoop(sd, ed), errs |-> <<>>]

count_holidays_mutant_rebind(s, start, end, use_observed, today) ==
    LET sd == _to_date(start, today)
        ed == _to_date(end, today)
        hols == holidays(FederalHoliday__init__(_bind(s, sd).self.fiscal_year))
        InRange(dt) == DateLe(sd, dt) /\ DateLe(dt, ed)
    IN  [self |-> _bind(s, sd).self,
         ret  |-> IF DateLt(ed, sd) THEN 0
                  ELSE Cardinality({ item \in values(hols.ret) :
                                       InRange(HolidayDate(item[2], use_observed)) }),
         errs |-> hols.errs]

\* FiscalYear.count_holidays(start, end, use_observed): the holidays are those
\* of FederalHoliday(self.fiscal_year), whatever the range.
count_holidays(s, start, end, use_observed, today) ==
    LET sd == _to_date(start, today)
        ed == _to_date(end, today)
    IN  IF ~(IsDate(sd) /\ IsDate(ed))
        THEN [self |-> s, ret |-> None,
              errs |-> <<Error("TypeError", "fiscal", "FiscalYear",
                               "count_holidays(self, start, end)")>>]
        ELSE IF DateLt(ed, sd) THEN [self |-> s, ret |-> 0, errs |-> <<>>]
        ELSE IF ~HasAttr(s, "fiscal_year")
        THEN [self |-> s, ret |-> None,
              errs |-> <<Error("AttributeError", "fiscal", "FiscalYear",
                               "count_holidays(self, start, end)")>>]
        ELSE
        LET hols == holidays(FederalHoliday__init__(s.fiscal_year))
            InRange(dt) == DateLe(sd, dt) /\ DateLe(dt, ed)
        IN  [self |-> s, ret |-> Cardinality({ item \in values(hols.ret) :
                                     InRange(HolidayDate(item[2], use_observed)) }),
             errs |-> hols.errs]

count_workdays_mutant_saturday(s, start, end, use_observed, today) ==
    LET sd == _to_date(start, today)
        ed == _to_date(end, today)
        hols == holidays(FederalHoliday__init__(s.fiscal_year))
        hset == { HolidayDate(item[2], use_observed) : item \in values(hols.ret) }
    IN  [self |-> s, ret |-> IF DateLt(ed, sd) THEN 0
                 ELSE Cardinality({ cur \in DaysOfLoop(sd, ed) :
                                      weekday(cur) <= SATURDAY /\ cur \notin hset }),
         errs |-> hols.errs]

count_workdays_mutant_range_fy(s, start, end, use_observed, today) ==
    LET sd == _to_date(start, today)
        ed == _to_date(end, today)
        fy == IF sd.month >= October THEN sd.year + 1 ELSE sd.year
        hols == holidays(FederalHoliday__init__(fy))
        hset == { HolidayDate(item[2], use_observed) : item \in values(hols.ret) }
    IN  [self |-> s, ret |-> IF DateLt(ed, sd) THEN 0 ELSE WorkdayLoop(sd, ed, hset),
         errs |-> hols.errs]

\* FiscalYear.count_workdays(start, end, use_observed)
count_workdays(s, start, end, use_observed, today) ==
    LET sd == _to_date(start, today)
        ed == _to_date(end, today)
    IN  IF ~(IsDate(sd) /\ IsDate(ed))
        THEN [self |-> s, ret |-> None,
              errs |-> <<Error("TypeError", "fiscal", "FiscalYear",
                               "count_workdays(self, start, end)")>>]
        ELSE IF DateLt(ed, sd) THEN [self |-> s, ret |-> 0, errs |-> <<>>]
        ELSE IF ~HasAttr(s, "fiscal_year")
        THEN [self |-> s, ret |-> None,
              errs |-> <<Error("AttributeError", "fiscal", "FiscalYear",
                               "count_workdays(self, start, end)")>>]
        ELSE
        LET hols == holidays(FederalHoliday__init__(s.fiscal_year))
            hset == { HolidayDate(item[2], use_observed) : item \in values(hols.ret) }
        IN  [self |-> s, ret |-> WorkdayLoop(sd, ed, hset), errs |-> hols.errs]

----------------------------------------------------------------------------
(* The callers' inputs.                                                    *)

\* The time of day of every datetime a caller passes.
NoonHour == 12

BindDates == DatesOfYears(BindMinYear, BindMaxYear)

\* A rebind gets one of the first RebindDays days or the last day of a month.
RebindDays == 1

RebindDates ==
    { d \in BindDates : d.day <= RebindDays \/ d.day = _days_in_month(d.year, d.month) }

FiscalYears == MinFiscalYear..MaxFiscalYear

CountDates == DatesOfYears(CountYear, CountYear)

\* The instances the range counts are asked of: bound to the first day of each
\* fiscal half-year of CountYear, the one in the fiscal year that ends in
\* CountYear, the other in the fiscal year that starts in it.
ContextDates == { Date(CountYear, 4, 1), Date(CountYear, 10, 1) }

\* The ranges asked for: every start of CountYear with an end up to MaxSpan
\* days later or the day before (start > end), the two whole fiscal years,
\* and the week 2025-10-01 .. 2025-10-07.
Ranges ==
    { <<s, AddDays(s, n)>> : s \in CountDates, n \in (-1)..MaxSpan } \cup
    { <<Date(y - 1, 10, 1), Date(y, 9, 30)>> : y \in CountYear..(CountYear + 1) } \cup
    { <<Date(2025, 10, 1), Date(2025, 10, 7)>> }

\* A date argument as the caller passes it: as it is, or as a datetime.
AsArg(d, asDatetime) ==
    IF asDatetime THEN DateTime(d.year, d.month, d.day, NoonHour) ELSE d

----------------------------------------------------------------------------
(* Specification Spec: a FiscalYear is constructed, rebound, and queried.  *)

\* fy = FiscalYear(d0); date.today() is consulted only for None.
Init ==
    \E d0 \in BindDates :
        LET o == FiscalYear__init__(d0, d0)
        IN  /\ self = o.self
            /\ fh = NoAttrs
            /\ pc = "ready"
            /\ call = [name |-> "__init__", args |-> <<d0>>]
            /\ result = None
            /\ sink = o.errs
            /\ raised = ""
            /\ _window = "none"
            /\ _event = None

\* fy._bind(d)
Rebind ==
    /\ pc = "ready"
    /\ \E d \in RebindDates :
        LET o == _bind(self, d)
        IN  /\ self' = o.self
            /\ call' = [name |-> "_bind", args |-> <<d>>]
            /\ result' = None
            /\ sink' = o.errs
            /\ raised' = ""
    /\ UNCHANGED <<fh, pc, _window, _event>>

\* fy.fiscal_days_in_year()
FiscalDaysInYear ==
    /\ pc = "ready"
    /\ LET o == fiscal_days_in_year(self)
       IN  /\ self' = o.self
           /\ call' = [name |-> "fiscal_days_in_year", args |-> <<>>]
           /\ result' = o.ret
           /\ sink' = o.errs
           /\ raised' = ""
    /\ pc' = "done"
    /\ UNCHANGED <<fh, _window, _event>>

Next == Rebind \/ FiscalDaysInYear

Spec == Init /\ [][Next]_vars

----------------------------------------------------------------------------
(* Specification SpecQuery: a FiscalYear is constructed from any kind of   *)
(* value, rebound, and asked one of its queries.                           *)

\* What the caller passes to FiscalYear(...): every date of the bind years,
\* the day of the scenario bind(2025-10-01), some of them as datetimes, None,
\* and values that are no dates.
ConstructorInputs ==
    BindDates \cup { Date(2025, 10, 1) }
    \cup { AsArg(d, TRUE) : d \in RebindDates }
    \cup { None, PyStr(""), PyStr("2025-10-01"), PyInt(0), PyInt(2025) }

\* What date.today() may return when the constructor is given None.
Todays == { Date(BindMinYear, 9, 30), Date(BindMinYear, 10, 1), Date(BindMaxYear, 2, 29) }

\* What the caller passes to _bind(d) when it rebinds.
BindValues ==
    { None, PyStr("2025-10-01"),
      Date(BindMaxYear, 9, 30), Date(BindMaxYear, 10, 1),
      DateTime(BindMaxYear, 9, 30, 0), DateTime(BindMaxYear, 10, 1, 0),
      DateTime(BindMaxYear, 1, 1, NoonHour) }

InitQuery ==
    \E x \in ConstructorInputs, today \in Todays :
        LET o == FiscalYear__init__(x, today)
        IN  /\ self = o.self
            /\ fh = NoAttrs
            /\ pc = "ready"
            /\ call = [name |-> "__init__", args |-> <<x>>, today |-> today]
            /\ result = None
            /\ raised = ""
            /\ sink = o.errs
            /\ _window = "none"
            /\ _event = None

\* fy._bind(d) with any kind of value
BindValue ==
    /\ pc = "ready"
    /\ \E d \in BindValues :
        LET o == _bind(self, d)
        IN  /\ self' = o.self
            /\ call' = [name |-> "_bind", args |-> <<d>>]
            /\ result' = None
            /\ raised' = ""
            /\ sink' = o.errs
    /\ UNCHANGED <<fh, pc, _window, _event>>

\* The caller has the outcome o of fy.<name>(): the instance as the method
\* left it, the value or the exception it got, the records presented.
Answer(name, o) ==
    /\ self' = o.self
    /\ call' = [name |-> name, args |-> <<>>]
    /\ result' = o.ret
    /\ raised' = o.raised
    /\ sink' = o.errs
    /\ pc' = "done"
    /\ UNCHANGED <<fh, _window, _event>>

CalendarDayOfYear ==
    pc = "ready" /\ Answer("calendar_day_of_year", calendar_day_of_year(self))

FiscalDayOfYear ==
    pc = "ready" /\ Answer("fiscal_day_of_year", fiscal_day_of_year(self))

FiscalElapsedDays ==
    pc = "ready" /\ Answer("fiscal_elapsed_days", fiscal_elapsed_days(self))

FiscalPercentElapsed ==
    pc = "ready" /\ Answer("fiscal_percent_elapsed", fiscal_percent_elapsed(self))

IsFiscalStartYear ==
    pc = "ready" /\ Answer("is_fiscal_start_year", is_fiscal_start_year(self))

IsFiscalEndYear ==
    pc = "ready" /\ Answer("is_fiscal_end_year", is_fiscal_end_year(self))

ToDict ==
    pc = "ready" /\ Answer("to_dict", to_dict(self))

Repr ==
    pc = "ready" /\ Answer("__repr__", __repr__(self))

\* What the caller passes to FederalHoliday(...): a fiscal year, None, a
\* year before the first one, a str that is no number.
HolidayYearInputs == { PyInt(BindMaxYear), PyInt(0), None, PyStr("FY") }

\* FederalHoliday(fiscal_year), constructed by the caller of the FiscalYear
NewFederalHoliday ==
    /\ pc = "ready"
    /\ \E fiscal_year \in HolidayYearInputs :
        LET o == FederalHoliday(fiscal_year)
        IN  /\ fh' = o.self
            /\ call' = [name |-> "FederalHoliday", args |-> <<fiscal_year>>]
            /\ result' = None
            /\ raised' = o.raised
            /\ sink' = <<>>
    /\ pc' = "done"
    /\ UNCHANGED <<self, _window, _event>>

NextQuery ==
    \/ BindValue
    \/ NewFederalHoliday
    \/ CalendarDayOfYear
    \/ FiscalDayOfYear
    \/ FiscalElapsedDays
    \/ FiscalDaysInYear
    \/ FiscalPercentElapsed
    \/ IsFiscalStartYear
    \/ IsFiscalEndYear
    \/ ToDict
    \/ Repr

SpecQuery == InitQuery /\ [][NextQuery]_vars

----------------------------------------------------------------------------
(* Specification SpecHolidays: a FederalHoliday is constructed and asked.  *)

\* fh = FederalHoliday(fiscal_year)
InitHolidays ==
    \E fiscal_year \in FiscalYears :
        /\ self = NoAttrs
        /\ fh = FederalHoliday__init__(fiscal_year)
        /\ pc = "ready"
        /\ call = [name |-> "FederalHoliday", args |-> <<fiscal_year>>]
        /\ result = None
        /\ sink = <<>>
        /\ raised = ""
        /\ _window = "none"
        /\ _event = None

\* fh.holidays()
Holidays ==
    /\ pc = "ready"
    /\ LET o == holidays(fh)
       IN  /\ fh' = o.self
           /\ call' = [name |-> "holidays", args |-> <<>>]
           /\ result' = o.ret
           /\ sink' = o.errs
           /\ raised' = ""
    /\ pc' = "done"
    /\ UNCHANGED <<self, _window, _event>>

\* hols = {}; fh._add_holiday(hols, name, actual); the result is hols.
AddHoliday ==
    /\ pc = "ready"
    /\ \E name \in {"Labor Day", "Columbus Day"},
          actual \in DatesOfYears(fh.fiscal_year - 1, fh.fiscal_year) :
        LET o == _add_holiday(fh, NoAttrs, name, actual)
        IN  /\ call' = [name |-> "_add_holiday", args |-> <<name, actual>>]
            /\ result' = o.hols
            /\ sink' = o.errs
            /\ raised' = ""
    /\ pc' = "done"
    /\ UNCHANGED <<self, fh, _window, _event>>

\* The n a caller passes to _nth_weekday_of_month: -1 .. MaxNth.
MaxNth == 6

\* hols = {}; fh._add_holiday(hols, name, fh._nth_weekday_of_month(year,
\* month, weekday, n)), the form of holidays()' statements, for any month,
\* weekday and n: the caller has what the lookup returned and hols.
AddNthWeekdayHoliday ==
    /\ pc = "ready"
    /\ \E year \in {fh.fiscal_year - 1, fh.fiscal_year}, month \in 1..12,
          wd \in MONDAY..SUNDAY, n \in (-1)..MaxNth :
        \E found \in { _nth_weekday_of_month(year, month, wd, n) } :
        \E o \in { _add_holiday(fh, NoAttrs, "Labor Day", found.ret) } :
            /\ call' = [name |-> "_nth_weekday_of_month", args |-> <<year, month, wd, n>>]
            /\ result' = [actual |-> found.ret, hols |-> o.hols]
            /\ sink' = found.errs \o o.errs
            /\ raised' = ""
    /\ pc' = "done"
    /\ UNCHANGED <<self, fh, _window, _event>>

\* What a caller passes as when: the days of the two calendar years of the
\* fiscal year, the first of each month as a datetime, None, and values
\* that are no dates.
WhenInputs(f) ==
    DatesOfYears(f.fiscal_year - 1, f.fiscal_year)
    \cup { AsArg(d, TRUE) : d \in { Date(f.fiscal_year, m, 1) : m \in 1..12 } }
    \cup { None, PyStr(""), PyStr("2024-10-05"), PyInt(0) }

\* What date.today() may return during a call.
HolidayTodays(f) == { Date(f.fiscal_year, 7, 4), Date(f.fiscal_year, 7, 5) }

\* fh.is_weekend(when)
IsWeekend ==
    /\ pc = "ready"
    /\ \E when \in WhenInputs(fh), today \in HolidayTodays(fh) :
        \E o \in { is_weekend(fh, when, today) } :
            /\ fh' = o.self
            /\ call' = [name |-> "is_weekend", args |-> <<when>>, today |-> today]
            /\ result' = o.ret
            /\ sink' = o.errs
            /\ raised' = ""
    /\ pc' = "done"
    /\ UNCHANGED <<self, _window, _event>>

\* fh.is_holiday(when, observed)
IsHoliday ==
    /\ pc = "ready"
    /\ \E when \in WhenInputs(fh), observed \in BOOLEAN, today \in HolidayTodays(fh) :
        \E o \in { is_holiday(fh, when, observed, today) } :
            /\ fh' = o.self
            /\ call' = [name |-> "is_holiday", args |-> <<when, observed>>, today |-> today]
            /\ result' = o.ret
            /\ sink' = o.errs
            /\ raised' = ""
    /\ pc' = "done"
    /\ UNCHANGED <<self, _window, _event>>

NextHolidays == Holidays \/ AddHoliday \/ AddNthWeekdayHoliday \/ IsWeekend \/ IsHoliday

SpecHolidays == InitHolidays /\ [][NextHolidays]_vars

----------------------------------------------------------------------------
(* Specification SpecCount: a FiscalYear is constructed and asked for one  *)
(* range count, on the day it was constructed.                             *)

InitCount ==
    \E d0 \in ContextDates :
        LET o == FiscalYear__init__(d0, d0)
        IN  /\ self = o.self
            /\ fh = NoAttrs
            /\ pc = "ready"
            /\ call = [name |-> "__init__", args |-> <<d0>>]
            /\ result = None
            /\ sink = o.errs
            /\ raised = ""
            /\ _window = "none"
            /\ _event = None

\* fy.count_weekends(start, end)
CountWeekends ==
    /\ pc = "ready"
    /\ \E r \in Ranges, asDatetime \in BOOLEAN :
        LET start == AsArg(r[1], asDatetime)
            end   == AsArg(r[2], asDatetime)
        IN  \E o \in { count_weekends(self, start, end, self.today) } :
                /\ self' = o.self
                /\ call' = [name |-> "count_weekends", args |-> <<start, end>>]
                /\ result' = o.ret
                /\ sink' = o.errs
                /\ raised' = ""
    /\ pc' = "done"
    /\ UNCHANGED <<fh, _window, _event>>

\* fy.count_holidays(start, end, use_observed)
CountHolidays ==
    /\ pc = "ready"
    /\ \E r \in Ranges, asDatetime \in BOOLEAN, use_observed \in BOOLEAN :
        LET start == AsArg(r[1], asDatetime)
            end   == AsArg(r[2], asDatetime)
        IN  \E o \in { count_holidays(self, start, end, use_observed, self.today) } :
                /\ self' = o.self
                /\ call' = [name |-> "count_holidays", args |-> <<start, end, use_observed>>]
                /\ result' = o.ret
                /\ sink' = o.errs
                /\ raised' = ""
    /\ pc' = "done"
    /\ UNCHANGED <<fh, _window, _event>>

\* fy.count_workdays(start, end, use_observed)
CountWorkdays ==
    /\ pc = "ready"
    /\ \E r \in Ranges, asDatetime \in BOOLEAN, use_observed \in BOOLEAN :
        LET start == AsArg(r[1], asDatetime)
            end   == AsArg(r[2], asDatetime)
        IN  \E o \in { count_workdays(self, start, end, use_observed, self.today) } :
                /\ self' = o.self
                /\ call' = [name |-> "count_workdays", args |-> <<start, end, use_observed>>]
                /\ result' = o.ret
                /\ sink' = o.errs
                /\ raised' = ""
    /\ pc' = "done"
    /\ UNCHANGED <<fh, _window, _event>>

NextCount == CountWeekends \/ CountHolidays \/ CountWorkdays

SpecCount == InitCount /\ [][NextCount]_vars

----------------------------------------------------------------------------
(* Specification SpecFrame: a bound FiscalYear and the FederalHoliday of   *)
(* its fiscal year are asked one query, and the caller asks it once more.  *)

\* fy = FiscalYear(d0); fh = FederalHoliday(fy.fiscal_year)
InitFrame ==
    \E d0 \in ContextDates :
        LET o == FiscalYear__init__(d0, d0)
        IN  /\ self = o.self
            /\ fh = FederalHoliday__init__(o.self.fiscal_year)
            /\ pc = "ready"
            /\ call = [name |-> "__init__", args |-> <<d0>>]
            /\ result = None
            /\ sink = o.errs
            /\ raised = ""
            /\ _window = "none"
            /\ _event = None

\* The methods of FederalHoliday among the queries.
HolidayQueries == { "holidays", "is_holiday", "is_weekend" }

\* The call c made on the FiscalYear s or the FederalHoliday f: what the
\* method named c.name does with the arguments c.args.
Invoke(c, s, f) ==
    CASE c.name = "calendar_day_of_year"   -> calendar_day_of_year(s)
      [] c.name = "fiscal_day_of_year"     -> fiscal_day_of_year(s)
      [] c.name = "fiscal_elapsed_days"    -> fiscal_elapsed_days(s)
      [] c.name = "fiscal_days_in_year"    -> fiscal_days_in_year(s)
      [] c.name = "fiscal_percent_elapsed" -> fiscal_percent_elapsed(s)
      [] c.name = "is_fiscal_start_year"   -> is_fiscal_start_year(s)
      [] c.name = "is_fiscal_end_year"     -> is_fiscal_end_year(s)
      [] c.name = "to_dict"                -> to_dict(s)
      [] c.name = "count_weekends"         ->
            count_weekends(s, c.args[1], c.args[2], s.today)
      [] c.name = "count_holidays"         ->
            count_holidays(s, c.args[1], c.args[2], c.args[3], s.today)
      [] c.name = "count_workdays"         ->
            count_workdays(s, c.args[1], c.args[2], c.args[3], s.today)
      [] c.name = "holidays"               -> holidays(f)
      [] c.name = "is_holiday"             -> is_holiday(f, c.args[1], c.args[2], c.today)
      [] c.name = "is_weekend"             -> is_weekend(f, c.args[1], c.today)

\* The caller makes the call it has just made once more, with the same
\* arguments, on the same day.
Repeat ==
    /\ pc = "done"
    /\ \E o \in { Invoke(call, self, fh) } :
        /\ self' = IF call.name \in HolidayQueries THEN self ELSE o.self
        /\ fh' = IF call.name \in HolidayQueries THEN o.self ELSE fh
        /\ result' = o.ret
        /\ raised' = IF "raised" \in DOMAIN o THEN o.raised ELSE ""
        /\ sink' = o.errs
    /\ pc' = "repeated"
    /\ UNCHANGED <<call, _window, _event>>

NextFrame ==
    \/ CalendarDayOfYear
    \/ FiscalDayOfYear
    \/ FiscalElapsedDays
    \/ FiscalDaysInYear
    \/ FiscalPercentElapsed
    \/ IsFiscalStartYear
    \/ IsFiscalEndYear
    \/ ToDict
    \/ CountWeekends
    \/ CountHolidays
    \/ CountWorkdays
    \/ Holidays
    \/ IsHoliday
    \/ IsWeekend
    \/ Repeat

SpecFrame == InitFrame /\ [][NextFrame]_vars

----------------------------------------------------------------------------
(* Specification SpecDialog: ErrorDialog(exception).show() presents a      *)
(* record that a handler of the core has built, and the user acts on the   *)
(* window.                                                                 *)

\* sg.WIN_CLOSED is None; sg.WIN_X_EVENT is the event of a close attempt.
WIN_CLOSED == None
WIN_X_EVENT == PyStr("-WINDOW CLOSE ATTEMPTED-")

\* The keys of the two buttons of the layout.
CancelKey == PyStr("-CANCEL-")
OkKey == PyStr("-OK-")

\* What _window.read() can return: the window was closed, or one of the two
\* buttons was pressed.  No other element of the layout raises events, and
\* the window does not enable the close-attempt event.
WindowEvents == { WIN_CLOSED, CancelKey, OkKey }

\* if _event in ( sg.WIN_CLOSED, sg.WIN_X_EVENT, 'Canel', '-OK-' ): break
BreakEvents == { WIN_CLOSED, WIN_X_EVENT, PyStr("Canel"), OkKey }

\* module, cause and method as the handlers of the core set them.
Origins ==
    { <<"tempus", "", "">>,
      <<"tempus", "FederalHoliday", "">>,
      <<"fiscal", "FiscalYear", "count_weekends(self, start, end)">>,
      <<"fiscal", "FiscalYear", "count_holidays(self, start, end)">>,
      <<"fiscal", "FiscalYear", "count_workdays(self, start, end)">>,
      <<"tempus", "FederalHoliday", "holidays( self ) -> Dict[ str, Dict[ str, date ] ]">>,
      <<"tempus", "FederalHoliday",
        "is_holiday( self, when: datetime, use_observed: bool=True ) -> bool">>,
      <<"tempus", "FederalHoliday", "is_weekend( self, when: datetime ) -> bool ">> }

\* The exceptions the handlers of the core catch.
Exceptions == { "ValueError", "TypeError", "AttributeError", "IndexError" }

\* error = ErrorDialog( exception ): a handler is about to call error.show().
InitDialog ==
    \E exc \in Exceptions, origin \in Origins :
        /\ self = NoAttrs
        /\ fh = NoAttrs
        /\ pc = "show"
        /\ call = [name |-> "show", args |-> <<>>]
        /\ result = None
        /\ raised = ""
        /\ sink = <<Error(exc, origin[1], origin[2], origin[3])>>
        /\ _window = "none"
        /\ _event = None

\* _window = sg.Window( ... ) with the layout of the record
Window ==
    /\ pc = "show"
    /\ _window' = "open"
    /\ pc' = "read"
    /\ UNCHANGED <<self, fh, call, result, raised, sink, _event>>

\* One turn of the loop: _event, _values = _window.read( ), then the test
\* that breaks out of the loop.
Read ==
    /\ pc = "read"
    /\ \E e \in WindowEvents :
        /\ _event' = e
        /\ pc' = IF e \in BreakEvents THEN "close" ELSE "read"
    /\ UNCHANGED <<self, fh, call, result, raised, sink, _window>>

\* _window.close( ), and show() returns to the handler that called it.
Close ==
    /\ pc = "close"
    /\ _window' = "closed"
    /\ pc' = "returned"
    /\ UNCHANGED <<self, fh, call, result, raised, sink, _event>>

NextDialog == Window \/ Read \/ Close

SpecDialog == InitDialog /\ [][NextDialog]_vars

----------------------------------------------------------------------------
(* Specification SpecFiscalHolidays: for each fiscal year, a FiscalYear    *)
(* bound in it and its FederalHoliday are asked for the year's holidays.   *)

\* fy = FiscalYear(d0) for the first day d0 of a month of the fiscal year;
\* fh = FederalHoliday(fy.fiscal_year)
InitFiscalHolidays ==
    \E fiscal_year \in FiscalYears, month \in 1..12 :
        \E d0 \in { Date(IF month >= October THEN fiscal_year - 1 ELSE fiscal_year,
                          month, 1) } :
        \E o \in { FiscalYear__init__(d0, d0) } :
            /\ self = o.self
            /\ fh = FederalHoliday__init__(o.self.fiscal_year)
            /\ pc = "ready"
            /\ call = [name |-> "__init__", args |-> <<d0>>]
            /\ result = None
            /\ sink = o.errs
            /\ raised = ""
            /\ _window = "none"
            /\ _event = None

\* fy.count_holidays(start, end, use_observed) over the instance's own fiscal
\* year, the bounds passed as they are stored (datetimes) or as dates.
CountHolidaysOfFiscalYear ==
    /\ pc = "ready"
    /\ \E asDatetime \in BOOLEAN, use_observed \in BOOLEAN :
        \E start \in { IF asDatetime THEN self.fy_start_date ELSE DatePart(self.fy_start_date) },
           end \in { IF asDatetime THEN self.fy_end_date ELSE DatePart(self.fy_end_date) } :
        \E o \in { count_holidays(self, start, end, use_observed, self.today) } :
            /\ self' = o.self
            /\ call' = [name |-> "count_holidays", args |-> <<start, end, use_observed>>]
            /\ result' = o.ret
            /\ sink' = o.errs
            /\ raised' = ""
    /\ pc' = "done"
    /\ UNCHANGED <<fh, _window, _event>>

NextFiscalHolidays == Holidays \/ CountHolidaysOfFiscalYear

SpecFiscalHolidays == InitFiscalHolidays /\ [][NextFiscalHolidays]_vars

----------------------------------------------------------------------------
(* Properties of binding (specification Spec).                             *)

\* The date the last bind was given, while the caller has not yet queried.
JustBound == pc = "ready" /\ call.name \in {"__init__", "_bind"}

BoundAttrs ==
    { "date", "calendar_year", "fiscal_year", "beginning_fiscal_year",
      "ending_fiscal_year", "fy_start_date", "fy_end_date",
      "cy_start_date", "cy_end_date" }

\* C1: after bind(d) for a valid date d, calendar_year = d.year, and
\* fiscal_year = d.year + 1 when d.month >= 10, d.year when d.month < 10.
C1_FiscalYearNamedForEndYear ==
    JustBound =>
        LET d == call.args[1]
        IN  /\ BoundAttrs \subseteq DOMAIN self
            /\ self.calendar_year = d.year
            /\ d.month >= 10 => self.fiscal_year = d.year + 1
            /\ d.month < 10 => self.fiscal_year = d.year

\* A rebind to a day of October has put the instance in the next year's
\* fiscal year.
C1_Witness ==
    /\ call.name = "_bind"
    /\ call.args[1].month = 10
    /\ self.calendar_year = call.args[1].year
    /\ self.fiscal_year = call.args[1].year + 1

\* The first and the last day of the fiscal year that contains date d, as
\* day numbers: the Oct 1 on or before d and the Sep 30 on or after it.
FiscalStartOrdinal(d) ==
    IF toordinal(Date(d.year, 10, 1)) <= toordinal(d)
    THEN toordinal(Date(d.year, 10, 1))
    ELSE toordinal(Date(d.year - 1, 10, 1))

FiscalEndOrdinal(d) ==
    IF toordinal(d) <= toordinal(Date(d.year, 9, 30))
    THEN toordinal(Date(d.year, 9, 30))
    ELSE toordinal(Date(d.year + 1, 9, 30))

\* C2: after any sequence of binds and rebinds with valid dates,
\* fy_start <= bound date <= fy_end (as calendar days: the bounds are stored
\* as datetimes at midnight), and every field is the one derived from the
\* date bound last; none is left over from an earlier bind.
C2_FieldsOfLastBoundDate ==
    /\ BoundAttrs \subseteq DOMAIN self
    /\ JustBound => self.date = call.args[1]
    /\ LET d == self.date
       IN  /\ toordinal(self.fy_start_date) <= toordinal(d)
           /\ toordinal(d) <= toordinal(self.fy_end_date)
           /\ toordinal(self.fy_start_date) = FiscalStartOrdinal(d)
           /\ toordinal(self.fy_end_date) = FiscalEndOrdinal(d)
           /\ self.calendar_year = d.year
           /\ self.ending_fiscal_year = self.fy_end_date.year
           /\ self.beginning_fiscal_year = self.fy_start_date.year
           /\ self.fiscal_year = self.fy_end_date.year
           /\ IsDateTime(self.fy_start_date) /\ self.fy_start_date.hour = 0
           /\ IsDateTime(self.fy_end_date) /\ self.fy_end_date.hour = 0
           /\ self.cy_start_date = DateTime(d.year, 1, 1, 0)
           /\ self.cy_end_date = DateTime(d.year, 12, 31, 0)

\* An instance constructed in the last quarter of one calendar year has been
\* rebound to a date before October of another: both years and all four
\* bounds had to change.
C2_Witness ==
    /\ call.name = "_bind"
    /\ self.today.month >= 10
    /\ self.date.month < 10
    /\ self.date.year # self.today.year
    /\ self.fiscal_year = self.date.year

\* C3: the fiscal bounds are Oct 1 of (fiscal_year - 1) and Sep 30 of
\* fiscal_year, beginning_fiscal_year = fiscal_year - 1, ending_fiscal_year =
\* fiscal_year, and fiscal_days_in_year() is 365 or 366 (366 exactly when the
\* fiscal year contains a Feb 29).
C3_FiscalBounds ==
    /\ {"fiscal_year", "beginning_fiscal_year", "ending_fiscal_year",
        "fy_start_date", "fy_end_date"} \subseteq DOMAIN self
    /\ self.fy_start_date = DateTime(self.fiscal_year - 1, 10, 1, 0)
    /\ self.fy_end_date = DateTime(self.fiscal_year, 9, 30, 0)
    /\ self.beginning_fiscal_year = self.fiscal_year - 1
    /\ self.ending_fiscal_year = self.fiscal_year
    /\ call.name = "fiscal_days_in_year" =>
          /\ sink = <<>>
          /\ result \in {365, 366}
          /\ result = 366 <=> _is_leap(self.fiscal_year)

\* fiscal_days_in_year() has returned 366 for a fiscal year with a Feb 29.
C3_Witness ==
    /\ call.name = "fiscal_days_in_year"
    /\ result = 366
    /\ self.date.month >= 10

----------------------------------------------------------------------------
(* Properties of the holiday mapping (specification SpecHolidays).         *)

HolidayNames ==
    { "Columbus Day", "Veterans Day", "Thanksgiving Day", "Christmas Day",
      "New Year's Day", "Birthday of Martin Luther King, Jr.",
      "Washington's Birthday", "Memorial Day",
      "Juneteenth National Independence Day", "Independence Day", "Labor Day" }

\* a is the day of (year, month) that falls on weekday wd with lo <= day <= hi.
IsWeekdayIn(a, year, month, wd, lo, hi) ==
    /\ IsDate(a) /\ a.year = year /\ a.month = month
    /\ lo <= a.day /\ a.day <= hi
    /\ (toordinal(a) + 6) % 7 = wd

\* a is the actual date the holiday called name has in fiscal year F.
IsActualDate(name, a, F) ==
    CASE name = "Columbus Day"     -> IsWeekdayIn(a, F - 1, 10, 0, 8, 14)
      [] name = "Veterans Day"     -> a = Date(F - 1, 11, 11)
      [] name = "Thanksgiving Day" -> IsWeekdayIn(a, F - 1, 11, 3, 22, 28)
      [] name = "Christmas Day"    -> a = Date(F - 1, 12, 25)
      [] name = "New Year's Day"   -> a = Date(F, 1, 1)
      [] name = "Birthday of Martin Luther King, Jr."
                                   -> IsWeekdayIn(a, F, 1, 0, 15, 21)
      [] name = "Washington's Birthday" -> IsWeekdayIn(a, F, 2, 0, 15, 21)
      [] name = "Memorial Day"     -> IsWeekdayIn(a, F, 5, 0, 25, 31)
      [] name = "Juneteenth National Independence Day" -> a = Date(F, 6, 19)
      [] name = "Independence Day" -> a = Date(F, 7, 4)
      [] name = "Labor Day"        -> IsWeekdayIn(a, F, 9, 0, 1, 7)
      [] OTHER                     -> FALSE

\* C4: holidays() for fiscal year F recognises only the eleven named
\* holidays and gives each its actual date: 2nd Monday of Oct, Nov 11, 4th
\* Thursday of Nov and Dec 25 of F - 1; Jan 1, 3rd Monday of Jan, 3rd Monday of
\* Feb, last Monday of May, Jun 19, Jul 4 and 1st Monday of Sep of F.
C4_ElevenHolidaysActualDates ==
    call.name = "holidays" =>
        /\ DOMAIN result \subseteq HolidayNames
        /\ \A name \in DOMAIN result :
              IsActualDate(name, result[name].actual, fh.fiscal_year)

\* holidays() has returned a mapping that holds all eleven names.
C4_Witness ==
    /\ call.name = "holidays"
    /\ DOMAIN result = HolidayNames
    /\ result["Memorial Day"].actual.day >= 25

\* The entries an operation has produced.
ProducedEntries ==
    IF call.name \in {"holidays", "_add_holiday"}
    THEN { result[name] : name \in DOMAIN result }
    ELSE {}

\* C5: in every holiday entry, an actual date on a Saturday is observed the
\* day before, one on a Sunday the day after, any other on the day itself.
C5_ObservedDateRule ==
    \A entry \in ProducedEntries :
        LET a  == toordinal(entry.actual)
            o  == toordinal(entry.observed)
            wd == (a + 6) % 7
        IN  /\ IsDate(entry.observed)
            /\ wd = 5 => o = a - 1
            /\ wd = 6 => o = a + 1
            /\ wd < 5 => entry.observed = entry.actual

\* A fiscal year whose mapping holds a holiday observed on the Friday before
\* its Saturday and another observed on the Monday after its Sunday.
C5_Witness ==
    /\ call.name = "holidays"
    /\ \E entry \in ProducedEntries :
          /\ weekday(entry.actual) = SATURDAY
          /\ weekday(entry.observed) = 4
          /\ entry.observed = AddDays(entry.actual, -1)
    /\ \E entry \in ProducedEntries :
          /\ weekday(entry.actual) = SUNDAY
          /\ weekday(entry.observed) = MONDAY
          /\ entry.observed = AddDays(entry.actual, 1)

\* Day number n lies in the window of fiscal year F: Oct 1 of F - 1 .. Sep 30 of F.
InFiscalWindow(n, F) ==
    /\ toordinal(Date(F - 1, 10, 1)) <= n
    /\ n <= toordinal(Date(F, 9, 30))

\* The day number on which a holiday of actual date a is observed.
ObservedOrdinal(a) ==
    LET wd == (toordinal(a) + 6) % 7
    IN  toordinal(a) + (IF wd = 5 THEN -1 ELSE IF wd = 6 THEN 1 ELSE 0)

\* C6: every entry of the mapping has its observed date within
\* [Oct 1 of F - 1, Sep 30 of F]; a holiday observed outside that window is
\* left out of the mapping, and leaving it out reports no error.
C6_ObservedWithinWindow ==
    /\ \A entry \in ProducedEntries :
          InFiscalWindow(toordinal(entry.observed), fh.fiscal_year)
    /\ call.name = "holidays" => sink = <<>>
    /\ call.name = "_add_holiday" =>
          /\ sink = <<>>
          /\ DOMAIN result \subseteq {call.args[1]}
          /\ call.args[1] \in DOMAIN result <=>
                InFiscalWindow(ObservedOrdinal(call.args[2]), fh.fiscal_year)

\* _add_holiday was given an actual date inside the window whose observed
\* date is outside it (Oct 1 on a Saturday): no entry, no error.
C6_Witness ==
    /\ call.name = "_add_holiday"
    /\ InFiscalWindow(toordinal(call.args[2]), fh.fiscal_year)
    /\ ~InFiscalWindow(ObservedOrdinal(call.args[2]), fh.fiscal_year)
    /\ DOMAIN result = {}
    /\ sink = <<>>

----------------------------------------------------------------------------
(* Properties of the range counts (specification SpecCount).               *)

\* The calendar day of a date or datetime argument.
ArgDay(v) == toordinal(Date(v.year, v.month, v.day))

RangeCall == call.name \in {"count_weekends", "count_holidays", "count_workdays"}

\* The actual dates the holidays have in fiscal year F, found by searching
\* the two calendar years F - 1 and F.
ExpectedActuals(F) ==
    { a \in DatesOfYears(F - 1, F) : \E name \in HolidayNames : IsActualDate(name, a, F) }

\* <<F, use_observed, n>>: day number n is a holiday date of fiscal year F,
\* observed (TRUE) or actual (FALSE), for the holidays observed within F's window.
HolidayDays ==
    UNION { { <<F, TRUE, ObservedOrdinal(a)>> :
                a \in { x \in ExpectedActuals(F) : InFiscalWindow(ObservedOrdinal(x), F) } }
            \cup
            { <<F, FALSE, toordinal(a)>> :
                a \in { x \in ExpectedActuals(F) : InFiscalWindow(ObservedOrdinal(x), F) } } :
            F \in CountYear..(CountYear + 1) }

\* The number of Saturdays and Sundays among the day numbers lo..hi: day
\* number n is a Sunday when 7 divides n, a Saturday when 7 divides n + 1.
WeekendDays(lo, hi) ==
    ((hi \div 7) - ((lo - 1) \div 7)) + (((hi + 1) \div 7) - (lo \div 7))

\* C7: count_holidays(start, end) <= 11, and the holiday dates it counts
\* (observed or actual, per the flag) are pairwise distinct: the count is the
\* number of distinct holiday days in the range.
C7_HolidayCountDistinct ==
    (call.name = "count_holidays" /\ ArgDay(call.args[1]) <= ArgDay(call.args[2])) =>
        /\ sink = <<>>
        /\ result <= 11
        /\ result = Cardinality({ n \in ArgDay(call.args[1])..ArgDay(call.args[2]) :
                                    <<self.fiscal_year, call.args[3], n>> \in HolidayDays })

\* count_holidays over the whole fiscal year of the instance has counted
\* eleven observed dates.
C7_Witness ==
    /\ call.name = "count_holidays"
    /\ call.args[3] = TRUE
    /\ ArgDay(call.args[1]) = toordinal(self.fy_start_date)
    /\ ArgDay(call.args[2]) = toordinal(self.fy_end_date)
    /\ result = 11

\* The holiday dates (per the flag) of the instance's fiscal year, as
\* count_workdays collects them from FederalHoliday(self.fiscal_year).holidays().
OwnHolidayDates(use_observed) ==
    LET hols == holidays(FederalHoliday__init__(self.fiscal_year)).ret
    IN  { HolidayDate(hols[n], use_observed) : n \in DOMAIN hols }

\* C8: for start <= end every day of [start, end] is exactly one of workday,
\* weekend day, weekday holiday: count_workdays + count_weekends + (holiday
\* dates of this fiscal year in the range that fall on Mon-Fri) = end - start
\* + 1, for use_observed true and false.
C8_DaysPartition ==
    (call.name = "count_workdays" /\ ArgDay(call.args[1]) <= ArgDay(call.args[2])) =>
        LET lo == ArgDay(call.args[1])
            hi == ArgDay(call.args[2])
            weekends == count_weekends(self, call.args[1], call.args[2], self.today)
            weekdayHolidays ==
                { d \in OwnHolidayDates(call.args[3]) :
                    /\ lo <= toordinal(d) /\ toordinal(d) <= hi
                    /\ weekday(d) < SATURDAY }
        IN  /\ sink = <<>> /\ weekends.errs = <<>>
            /\ result + weekends.ret + Cardinality(weekdayHolidays) = hi - lo + 1

\* A range that holds a workday, a weekend day and a weekday holiday at once.
C8_Witness ==
    /\ call.name = "count_workdays"
    /\ result > 0
    /\ count_weekends(self, call.args[1], call.args[2], self.today).ret > 0
    /\ \E d \in OwnHolidayDates(call.args[3]) :
          /\ ArgDay(call.args[1]) <= toordinal(d) /\ toordinal(d) <= ArgDay(call.args[2])
          /\ weekday(d) < SATURDAY
    /\ result < ArgDay(call.args[2]) - ArgDay(call.args[1]) + 1
                - count_weekends(self, call.args[1], call.args[2], self.today).ret

\* C9: each range count returns 0, reporting nothing, when start > end after
\* both arguments are normalised to dates; for start <= end count_weekends
\* returns the number of Saturdays and Sundays in [start, end]: 2 for
\* 2025-10-01 .. 2025-10-07.
C9_EmptyRangeAndWeekends ==
    /\ (RangeCall /\ ArgDay(call.args[1]) > ArgDay(call.args[2])) =>
          result = 0 /\ sink = <<>>
    /\ (call.name = "count_weekends" /\ ArgDay(call.args[1]) <= ArgDay(call.args[2])) =>
          /\ sink = <<>>
          /\ result = WeekendDays(ArgDay(call.args[1]), ArgDay(call.args[2]))
    /\ (call.name = "count_weekends"
          /\ ArgDay(call.args[1]) = toordinal(Date(2025, 10, 1))
          /\ ArgDay(call.args[2]) = toordinal(Date(2025, 10, 7))) =>
          result = 2

\* count_workdays was given two datetimes, the start one day after the end,
\* and returned 0 without reporting.
C9_Witness ==
    /\ call.name = "count_workdays"
    /\ IsDateTime(call.args[1]) /\ IsDateTime(call.args[2])
    /\ ArgDay(call.args[1]) = ArgDay(call.args[2]) + 1
    /\ result = 0
    /\ sink = <<>>

\* C10: for start <= end, count_workdays(start, end, use_observed) is the
\* number of days of [start, end] that are Monday-Friday and no holiday date
\* (per the flag) of the instance's own fiscal year; a holiday of another
\* fiscal year is counted as a workday.
C10_WorkdaysOfOwnFiscalYear ==
    (call.name = "count_workdays" /\ ArgDay(call.args[1]) <= ArgDay(call.args[2])) =>
        /\ sink = <<>>
        /\ result = Cardinality({ n \in ArgDay(call.args[1])..ArgDay(call.args[2]) :
                                    /\ (n + 6) % 7 < 5
                                    /\ <<self.fiscal_year, call.args[3], n>> \notin HolidayDays })

\* A one-day range on a weekday that is a holiday of the other fiscal year
\* and none of the instance's own: count_workdays counts it.
C10_Witness ==
    /\ call.name = "count_workdays"
    /\ ArgDay(call.args[1]) = ArgDay(call.args[2])
    /\ \E F \in CountYear..(CountYear + 1) :
          /\ F # self.fiscal_year
          /\ <<F, call.args[3], ArgDay(call.args[1])>> \in HolidayDays
    /\ <<self.fiscal_year, call.args[3], ArgDay(call.args[1])>> \notin HolidayDays
    /\ (ArgDay(call.args[1]) + 6) % 7 < 5
    /\ result = 1

----------------------------------------------------------------------------
(* Properties of the queries (specification SpecQuery).                    *)

\* The instance is bound to a date or a datetime: all nine fields are set.
IsBound ==
    /\ BoundAttrs \subseteq DOMAIN self
    /\ IsDate(self.date) \/ IsDateTime(self.date)

\* C11: for every bound date d, is_fiscal_start_year() returns True iff d is
\* the first day (Oct 1) and is_fiscal_end_year() True iff d is the last day
\* (Sep 30) of the fiscal year; bound to 2025-10-01 the instance has
\* fiscal_year 2026, beginning 2025, ending 2026 and is_fiscal_start_year()
\* is True.
C11_BoundaryChecks ==
    /\ (call.name = "is_fiscal_start_year" /\ IsBound) =>
          /\ sink = <<>>
          /\ result = PyBool(toordinal(self.date) = toordinal(self.fy_start_date))
    /\ (call.name = "is_fiscal_end_year" /\ IsBound) =>
          /\ sink = <<>>
          /\ result = PyBool(toordinal(self.date) = toordinal(self.fy_end_date))
    /\ (call.name = "is_fiscal_start_year" /\ IsBound /\ self.date = Date(2025, 10, 1)) =>
          /\ self.fiscal_year = 2026
          /\ self.beginning_fiscal_year = 2025
          /\ self.ending_fiscal_year = 2026
          /\ result = PyBool(TRUE)

\* C12: no public operation lets a failure escape to its caller as a raised
\* exception, whatever the input and also on an instance whose bind failed:
\* the failure is caught in the operation and handed to the error sink.
C12_NoExceptionEscapes == raised = ""

\* fiscal_percent_elapsed() of the instance bound one day earlier.
PercentOfDayBefore ==
    fiscal_percent_elapsed(_bind(self, AddDays(self.date, -1)).self).ret

\* C13: as the bound date advances day by day through the fiscal year,
\* fiscal_percent_elapsed() is a number in [0, 100] that never decreases from
\* one day to the next and is exactly 100 on the last day of the fiscal year.
C13_PercentElapsed ==
    (call.name = "fiscal_percent_elapsed" /\ IsBound) =>
        /\ result.kind = "float"
        /\ 0 <= result.num /\ result.num <= 100 * result.den
        /\ toordinal(self.date) = toordinal(self.fy_end_date) =>
              result.num = 100 * result.den
        /\ toordinal(self.date) > toordinal(self.fy_start_date) =>
              /\ PercentOfDayBefore.kind = "float"
              /\ PercentOfDayBefore.num * result.den <= result.num * PercentOfDayBefore.den

\* C14: for every bound date d, fiscal_day_of_year() is the integer
\* (d - fiscal-year start).days + 1, within 1..366, and calendar_day_of_year()
\* the integer (d - Jan 1).days + 1: 1 on Jan 1, 365 or 366 on Dec 31; neither
\* is a duration nor undefined.
C14_DayOfYear ==
    /\ (call.name = "fiscal_day_of_year" /\ IsBound) =>
          /\ result = PyInt(toordinal(self.date) - toordinal(self.fy_start_date) + 1)
          /\ result.value \in 1..366
    /\ (call.name = "calendar_day_of_year" /\ IsBound) =>
          /\ result = PyInt(toordinal(self.date) - toordinal(self.cy_start_date) + 1)
          /\ (self.date.month = 1 /\ self.date.day = 1) => result.value = 1
          /\ (self.date.month = 12 /\ self.date.day = 31) => result.value \in {365, 366}

----------------------------------------------------------------------------
(* Properties of the holiday calendar's lookups (specification             *)
(* SpecHolidays).                                                          *)

\* The days of the month that fall on weekday wd.
DaysOnWeekday(year, month, wd) ==
    { d \in 1.._days_in_month(year, month) : (toordinal(Date(year, month, d)) + 6) % 7 = wd }

\* C16: _nth_weekday_of_month(year, month, weekday, n) returns the n-th
\* (1-based) day of the month that falls on that weekday when n is between 1
\* and the number of such days, and for any other n it reports an error and
\* returns no date (no wrapped-around lookup); after a failed lookup
\* _add_holiday stores no entry.
C16_NthWeekdayBounds ==
    call.name = "_nth_weekday_of_month" =>
        LET year  == call.args[1]
            month == call.args[2]
            days  == DaysOnWeekday(year, month, call.args[3])
            n     == call.args[4]
        IN  /\ (1 <= n /\ n <= Cardinality(days)) =>
                  /\ IsDate(result.actual)
                  /\ result.actual.year = year /\ result.actual.month = month
                  /\ result.actual.day \in days
                  /\ Cardinality({ d \in days : d <= result.actual.day }) = n
                  /\ sink = <<>>
            /\ ~(1 <= n /\ n <= Cardinality(days)) =>
                  /\ result.actual = None
                  /\ sink # <<>>
            /\ result.actual = None => result.hols = NoAttrs

\* C17: is_weekend(when) returns True iff when falls on a Saturday or a
\* Sunday; for a when that is None or empty it reports an input-validation
\* error (ValueError) and returns no boolean: it does not fall back to the
\* current date.
C17_IsWeekend ==
    call.name = "is_weekend" =>
        LET when == call.args[1]
        IN  /\ (IsDate(when) \/ IsDateTime(when)) =>
                  /\ result = PyBool((toordinal(DatePart(when)) + 6) % 7 \in {5, 6})
                  /\ sink = <<>>
            /\ when \in {None, PyStr("")} =>
                  /\ result = None
                  /\ Len(sink) = 1
                  /\ sink[1].exception = "ValueError"
            /\ raised = ""

\* is_weekend(None) on a day whose today is a weekday or a weekend day
C17_Witness ==
    /\ call.name = "is_weekend"
    /\ call.args[1] = None
    /\ result = None
    /\ sink # <<>>

----------------------------------------------------------------------------
(* Properties of the queries as a whole (specification SpecFrame).         *)

----------------------------------------------------------------------------
(* Properties of the error records (specification SpecQuery).              *)

\* C19: every error record handed to the sink names the module, the
\* component (cause) and the method in which the failure occurred, together
\* with the underlying error: none is forwarded with an empty cause or method.
C19_RecordsNameTheirOrigin ==
    \A i \in 1..Len(sink) :
        /\ sink[i].exception # ""
        /\ sink[i].module # ""
        /\ sink[i].cause # ""
        /\ sink[i].method # ""

----------------------------------------------------------------------------
(* Properties of the error dialog (specification SpecDialog).              *)

\* C20: while show() presents a record, every dismissing event (OK pressed,
\* Cancel pressed, the window closed) ends the event loop; the window is
\* then closed and show() returns to the operation that reported the
\* failure.
C20_DismissReturns ==
    [][ /\ (pc = "read" /\ <<pc, _event>>' # <<pc, _event>>
             /\ _event' \in { WIN_CLOSED, CancelKey, OkKey }) => pc' = "close"
        /\ (pc = "close" /\ pc' # pc) => (_window' = "closed" /\ pc' = "returned") ]_vars

----------------------------------------------------------------------------
(* Properties of a fiscal year's holidays (specification                   *)
(* SpecFiscalHolidays).                                                    *)

\* C21: for every fiscal year F the mapping of holidays() has exactly eleven
\* entries, each observed within [Oct 1 of F - 1, Sep 30 of F], so the window
\* filter drops none; and count_holidays over the whole fiscal year is 11,
\* for the observed and for the actual dates.
C21_AlwaysElevenHolidays ==
    /\ call.name = "holidays" =>
          /\ sink = <<>>
          /\ DOMAIN result = HolidayNames
          /\ Cardinality(DOMAIN result) = 11
          /\ \A name \in DOMAIN result :
                /\ InFiscalWindow(toordinal(result[name].observed), fh.fiscal_year)
                /\ InFiscalWindow(toordinal(result[name].actual), fh.fiscal_year)
    /\ call.name = "count_holidays" =>
          /\ sink = <<>>
          /\ result = 11

\* count_holidays over fiscal year 2022, whose New Year's Day (a Saturday) is
\* observed on Dec 31 of 2021, has counted eleven observed dates.
C21_Witness ==
    /\ call.name = "count_holidays"
    /\ self.fiscal_year = 2022
    /\ call.args[3] = TRUE
    /\ toordinal(call.args[1]) = toordinal(Date(2021, 10, 1))
    /\ toordinal(call.args[2]) = toordinal(Date(2022, 9, 30))
    /\ result = 11

----------------------------------------------------------------------------
(* Properties of failing calls (specification SpecQuery).                  *)

\* C22: a _bind that fails (with None, an empty value or a value that is no
\* date) leaves every bound field as it was before the call: the date is
\* never replaced while the years and bounds still describe the date bound
\* before.
C22_FailedBindChangesNothing ==
    [][ (call'.name = "_bind" /\ sink' # <<>>) =>
            \A a \in BoundAttrs :
                /\ a \in DOMAIN self' <=> a \in DOMAIN self
                /\ a \in DOMAIN self => self'[a] = self[a] ]_vars

\* C23: one public call hands at most one error record to the sink: the
\* failure of an operation that the called operation itself calls
\* (fiscal_percent_elapsed calling fiscal_elapsed_days and
\* fiscal_days_in_year, the constructor calling _bind) is not reported a
\* second or third time for the same call.
C23_OneRecordPerCall == Len(sink) <= 1

====
